---- MODULE Spec2Model ----
(***************************************************************************)
(* Model of us_census/us_census.py: twelve query functions that validate   *)
(* some argument types with assert, issue one requests.get, and turn the   *)
(* JSON body of a status-200 response into a pandas DataFrame.             *)
(*                                                                         *)
(* A call is modelled in two steps: the function's action runs the asserts *)
(* and issues the GET (pc = "sent"); then either Receive (requests.get     *)
(* returned a response and the rest of the function ran) or                *)
(* TransportFailure (requests.get raised) ends the call (pc = "done").     *)
(***************************************************************************)
EXTENDS Integers, Sequences, FiniteSets, TLC

VARIABLES
    pc,         \* "idle" | "sent" | "done": position of the current call
    fn,         \* name of the function being (or last) called
    args,       \* its positional arguments, a tuple of Python values
    requests,   \* the URLs this call has passed to requests.get, in order
    resp,       \* the response requests.get returned to this call
    parsed,     \* TRUE iff this call evaluated r.json()
    outcome,    \* how the call ended: a returned value or a raised exception
    printed,    \* what this call wrote with print()
    prev        \* the call completed just before this one, when it had the
                \* same function and arguments (history for repeated calls)

vars == <<pc, fn, args, requests, resp, parsed, outcome, printed, prev>>

---------------------------------------------------------------------------
(* Bounds of the model.                                                    *)

\* Largest number of arrays in a JSON array-of-arrays response body.
MaxRows == 2

---------------------------------------------------------------------------
(* Python values: the type tag, the integer (int, bool) and the string.     *)

PyInt(n) == [t |-> "int", i |-> n, s |-> ""]
PyStr(x) == [t |-> "str", i |-> 0, s |-> x]
PyBool(b) == [t |-> "bool", i |-> IF b THEN 1 ELSE 0, s |-> ""]
PyNone == [t |-> "NoneType", i |-> 0, s |-> ""]

\* isinstance(v, cls); bool is a subclass of int.
isinstance(v, cls) ==
    IF cls = "int" THEN v.t \in {"int", "bool"} ELSE v.t = cls

\* v == False / v == True: only bool and int operands can be equal to a bool.
PyEqBool(v, b) ==
    /\ v.t \in {"int", "bool"}
    /\ v.i = (IF b THEN 1 ELSE 0)

Digit(d) ==
    CASE d = 0 -> "0" [] d = 1 -> "1" [] d = 2 -> "2" [] d = 3 -> "3"
      [] d = 4 -> "4" [] d = 5 -> "5" [] d = 6 -> "6" [] d = 7 -> "7"
      [] d = 8 -> "8" [] OTHER -> "9"

RECURSIVE IntToStr(_)
IntToStr(n) ==
    IF n < 10 THEN Digit(n) ELSE IntToStr(n \div 10) \o Digit(n % 10)

\* What an f-string replacement field {v} puts into the string.
format(v) ==
    CASE v.t = "str" -> v.s
      [] v.t = "int" -> IntToStr(v.i)
      [] v.t = "bool" -> (IF v.i = 1 THEN "True" ELSE "False")
      [] OTHER -> "None"

\* year+1, year-1 on a value that passed isinstance(year, int).
PyAdd(v, k) == PyInt(v.i + k)

---------------------------------------------------------------------------
(* Responses, r.json() and pd.DataFrame.                                   *)

\* A response: its status code and its body.  json is what the body text
\* is: "array" (a JSON array of arrays, given by rows), "string" (a JSON
\* scalar string) or "invalid" (not JSON).
Response(st, j, rws) == [status |-> st, json |-> j, rows |-> rws]
NoResp == Response(0, "", <<>>)

\* The cell pandas puts where a row is shorter than the widest row.
NoneCell == "<None>"

Max(a, b) == IF a >= b THEN a ELSE b

RECURSIVE Width(_)
Width(rws) ==
    IF rws = <<>> THEN 0 ELSE Max(Len(rws[1]), Width(Tail(rws)))

Pad(row, w) == [k \in 1..w |-> IF k <= Len(row) THEN row[k] ELSE NoneCell]

\* A DataFrame: its column labels and its rows of cells.
NoDF == [columns |-> <<>>, values |-> <<>>]

Returned(kind, df) == [kind |-> kind, exc |-> "", df |-> df]
Raised(exc) == [kind |-> "raise", exc |-> exc, df |-> NoDF]
NoOutcome == [kind |-> "", exc |-> "", df |-> NoDF]
ReturnNone == Returned("None", NoDF)

\* pd.DataFrame(data) for a list of lists: integer column labels 0..w-1,
\* one row per list, short lists padded with None.
DataFrame(rws) ==
    LET w == Width(rws)
    IN  [columns |-> [k \in 1..w |-> k - 1],
         values |-> [n \in 1..Len(rws) |-> Pad(rws[n], w)]]

\* pd.DataFrame(r.json()): r.json() raises on a body that is not JSON, the
\* DataFrame constructor raises ValueError on a scalar.
DataFrameOfJson(r) ==
    CASE r.json = "invalid" -> Raised("JSONDecodeError")
      [] r.json = "array" -> Returned("DataFrame", DataFrame(r.rows))
      [] OTHER -> Raised("ValueError")

---------------------------------------------------------------------------
(* The rest of a function after requests.get has returned r.               *)

\* The message in each function's except (NameError) clause.
Message(f) ==
    CASE f \in {"AmComSurv", "AmComSurvSubjects", "AmComSurv_PopProfile"} ->
            "This group was not found, please try a valid group for the American Community Survey Year Data."
      [] f = "YrSupplemental" ->
            "This state, year, or key was not found, please try valid inputs for the American Community Supplemental estimates."
      [] f = "entrepreneur" ->
            "This state, year, or key was not found, please try valid inputs for the American Entrepreneurship Survey."
      [] f = "business" ->
            "This state, year, or key was not found, please try valid inputs for the American Business Survey."
      [] f = "manufacturing" ->
            "This state, year, survey number, or manufacturing sector code was not found. Please try valid inputs for the American Manufacturing survey ."
      [] f \in {"state_manufacturing", "unemployed", "county_business_patterns"} ->
            "This state, year, or manufacturing sector code was not found. Please try valid inputs for the American Manufacturing survey ."
      [] OTHER ->
            "This subset, year, or key was not found, please try valid inputs for the Economic Indicators survey."

\* The message of state_manufacturing's else branch.
ElseMessage == "An error occured with your get request. Please check your inputs again."

Ended(o, out, p) == [outcome |-> o, printed |-> out, parsed |-> p]

\* try: df = pd.DataFrame(r.json()); return df
\* except (NameError): print(msg)
\* Only a NameError is caught; any other exception leaves the function.
TryDataFrame(r, msg) ==
    LET res == DataFrameOfJson(r)
    IN  IF res.kind = "raise" /\ res.exc = "NameError"
          THEN Ended(ReturnNone, <<msg>>, TRUE)
          ELSE Ended(res, <<>>, TRUE)

\* get_econ's second branch: df = pd.DataFrame; return df.  The class
\* itself is returned and r2.json() is never evaluated.
ReturnsClass(f, a) == f = "get_econ" /\ PyEqBool(a[3], TRUE)

\* Only state_manufacturing has an else for "if r.status_code == 200".
HasElse(f) == f = "state_manufacturing"

\* AfterGet with a module-level list that keeps the rows of the call before:
\* the rows of this response are added to it and the whole list is returned.
AfterGetAccumulating(f, a, r) ==
    IF r.status = 200
      THEN IF ReturnsClass(f, a)
             THEN Ended(Returned("type", NoDF), <<>>, FALSE)
             ELSE TryDataFrame(Response(200, r.json, prev.outcome.df.values \o r.rows),
                               Message(f))
      ELSE IF HasElse(f)
             THEN Ended(ReturnNone, <<ElseMessage>>, FALSE)
             ELSE Ended(ReturnNone, <<>>, FALSE)

AfterGet(f, a, r) ==
    IF r.status = 200
      THEN IF ReturnsClass(f, a)
             THEN Ended(Returned("type", NoDF), <<>>, FALSE)
             ELSE TryDataFrame(r, Message(f))
      ELSE IF HasElse(f)
             THEN Ended(ReturnNone, <<ElseMessage>>, FALSE)
             ELSE Ended(ReturnNone, <<>>, FALSE)

---------------------------------------------------------------------------
(* Steps shared by the functions' actions.                                 *)

Url(scheme, path, query) ==
    [scheme |-> scheme, host |-> "api.census.gov", path |-> <<"data">> \o path,
     query |-> query]

ThisCall == [fn |-> fn, args |-> args, resp |-> resp, outcome |-> outcome]
NoCall == [fn |-> "", args |-> <<>>, resp |-> NoResp, outcome |-> NoOutcome]

\* A function is called with arguments a: a fresh call begins.
Enter(f, a) ==
    /\ pc \in {"idle", "done"}
    /\ fn' = f
    /\ args' = a
    /\ prev' = IF pc = "done" /\ fn = f /\ args = a THEN ThisCall ELSE NoCall
    /\ resp' = NoResp
    /\ parsed' = FALSE
    /\ printed' = <<>>

\* r = requests.get(url): the call blocks until the transport answers.
Get(url) ==
    /\ requests' = <<url>>
    /\ outcome' = NoOutcome
    /\ pc' = "sent"

\* The call ends before any request: by a failed assert, or by falling off
\* the end of the function.
EndEarly(o) ==
    /\ requests' = <<>>
    /\ outcome' = o
    /\ pc' = "done"

---------------------------------------------------------------------------
(* The query functions.                                                    *)

AmComSurv(year, group, key, yr) ==
    /\ Enter("AmComSurv", <<year, group, key, yr>>)
    /\ IF isinstance(year, "int") /\ isinstance(group, "str") /\ isinstance(key, "str")
         THEN Get(Url("https",
                      <<format(year), "acs", "acs" \o format(yr)>>,
                      <<"get=NAME,group(" \o format(group) \o ")", "for=us:1",
                        "key=" \o format(key)>>))
         ELSE EndEarly(Raised("AssertionError"))

AmComSurvSubjects(year, group, key, c) ==
    /\ Enter("AmComSurvSubjects", <<year, group, key, c>>)
    /\ IF isinstance(year, "int") /\ isinstance(group, "str") /\ isinstance(key, "str")
         THEN Get(Url("https",
                      <<format(year), "acs", "acs1", format(c) \o "profile">>,
                      <<"get=group(" \o format(group) \o ")", "for=us:1",
                        "key=" \o format(key)>>))
         ELSE EndEarly(Raised("AssertionError"))

AmComSurv_PopProfile(year, group, popgroup, key) ==
    /\ Enter("AmComSurv_PopProfile", <<year, group, popgroup, key>>)
    /\ IF /\ isinstance(year, "int") /\ isinstance(group, "str")
          /\ isinstance(key, "str") /\ isinstance(popgroup, "str")
         THEN Get(Url("https",
                      <<format(year), "acs", "acs1", "spp">>,
                      <<"get=NAME,group(" \o format(group) \o ")", "for=us:1",
                        "POPGROUP=" \o format(popgroup), "key=" \o format(key)>>))
         ELSE EndEarly(Raised("AssertionError"))

YrSupplemental(year, key, state) ==
    /\ Enter("YrSupplemental", <<year, key, state>>)
    /\ IF isinstance(year, "int") /\ isinstance(state, "str")
         THEN Get(Url("https",
                      <<format(year), "acs", "acsse">>,
                      <<"get=NAME,K200101_001E", "for=state:" \o format(state),
                        "key=" \o format(key)>>))
         ELSE EndEarly(Raised("AssertionError"))

MicroArea == "for=metropolitan%20statistical%20area/micropolitan%20statistical%20area:*"

entrepreneur(year, key, state, micro) ==
    /\ Enter("entrepreneur", <<year, key, state, micro>>)
    /\ IF isinstance(year, "int") /\ isinstance(state, "str") /\ isinstance(micro, "bool")
         THEN IF PyEqBool(micro, FALSE)
                THEN Get(Url("https", <<format(year), "ase", "csa">>,
                             <<"get=VET_GROUP_LABEL", "for=state:" \o format(state),
                               "key=" \o format(key)>>))
                ELSE IF PyEqBool(micro, TRUE)
                       THEN Get(Url("https", <<format(year), "ase", "csa">>,
                                    <<"get=VET_GROUP_LABEL", MicroArea,
                                      "key=" \o format(key)>>))
                       ELSE EndEarly(ReturnNone)
         ELSE EndEarly(Raised("AssertionError"))

business(year, key, state, micro) ==
    /\ Enter("business", <<year, key, state, micro>>)
    /\ IF isinstance(year, "int") /\ isinstance(state, "str") /\ isinstance(micro, "bool")
         THEN IF PyEqBool(micro, FALSE)
                THEN Get(Url("https", <<format(year), "ase", "cscb">>,
                             <<"get=RCPPDEMP_F", "for=state:" \o format(state),
                               "key=" \o format(key)>>))
                ELSE IF PyEqBool(micro, TRUE)
                       THEN Get(Url("https", <<format(year), "ase", "cscb">>,
                                    <<"get=RCPPDEMP_F", MicroArea,
                                      "key=" \o format(key)>>))
                       ELSE EndEarly(ReturnNone)
         ELSE EndEarly(Raised("AssertionError"))

manufacturing(year, manu, key) ==
    /\ Enter("manufacturing", <<year, manu, key>>)
    /\ IF isinstance(year, "int") /\ isinstance(manu, "str")
         THEN Get(Url("https",
                      <<"timeseries", "asm", "area" \o format(year)>>,
                      <<"get=NAICS" \o format(year) \o "_LABEL,NAICS" \o format(year) \o ",EMP",
                        "for=us:*", "YEAR=" \o format(PyAdd(year, 1)),
                        "NAICS" \o format(year) \o "=" \o format(manu),
                        "key=" \o format(key)>>))
         ELSE EndEarly(Raised("AssertionError"))

state_manufacturing(key, year, manu, crosssection, state) ==
    /\ Enter("state_manufacturing", <<key, year, manu, crosssection, state>>)
    /\ IF isinstance(state, "str") /\ isinstance(year, "int") /\ isinstance(manu, "str")
         THEN Get(Url("https",
                      <<"timeseries", "asm", format(crosssection)>>,
                      <<"get=NAICS_TTL,EMP,GEO_TTL", "for=state:" \o format(state),
                        "YEAR=" \o format(year), "NAICS=" \o format(manu),
                        "key=" \o format(key)>>))
         ELSE EndEarly(Raised("AssertionError"))

unemployed(year, manu, key, state) ==
    /\ Enter("unemployed", <<year, manu, key, state>>)
    /\ IF isinstance(year, "int") /\ isinstance(manu, "str") /\ isinstance(state, "str")
         THEN Get(Url("http",
                      <<format(year), "nonemp">>,
                      <<"get=NRCPTOT,NAME", "for=county:*", "in=state:" \o format(state),
                        "NAICS" \o format(year) \o "=" \o format(manu),
                        "key=" \o format(key)>>))
         ELSE EndEarly(Raised("AssertionError"))

county_business_patterns(year, manu, state) ==
    /\ Enter("county_business_patterns", <<year, manu, state>>)
    /\ IF isinstance(year, "int") /\ isinstance(manu, "str")
         THEN Get(Url("https",
                      <<format(year), "cbp">>,
                      <<"get=ESTAB,LFO,NAICS" \o format(PyAdd(year, -1)) \o "_LABEL,NAME",
                        "for=state:" \o format(state),
                        "NAICS" \o format(PyAdd(year, -1)) \o "=" \o format(manu)>>))
         ELSE EndEarly(Raised("AssertionError"))

EitsGet == "get=cell_value,data_type_code,time_slot_id,category_code,seasonally_adj"

get_econ(year1, subset, betweentime, year2, m1, m2) ==
    /\ Enter("get_econ", <<year1, subset, betweentime, year2, m1, m2>>)
    /\ IF isinstance(year1, "int") /\ isinstance(subset, "str")
         THEN IF PyEqBool(betweentime, FALSE)
                THEN Get(Url("https", <<"timeseries", "eits", format(subset)>>,
                             <<EitsGet, "time=" \o format(year1)>>))
                ELSE IF PyEqBool(betweentime, TRUE)
                       THEN Get(Url("https", <<"timeseries", "eits", format(subset)>>,
                                    <<EitsGet,
                                      "time=from+" \o format(year1) \o "-" \o format(m1)
                                        \o "+to+" \o format(year2) \o "-" \o format(m2)>>))
                       ELSE EndEarly(ReturnNone)
         ELSE EndEarly(Raised("AssertionError"))

health(year, state, county) ==
    /\ Enter("health", <<year, state, county>>)
    /\ Get(Url("http",
               <<"timeseries", "healthins", "sahie">>,
               <<"get=NIC_PT,NUI_PT", "for=county:" \o format(county),
                 "in=state:" \o format(state), "time=" \o format(year)>>))

---------------------------------------------------------------------------
(* The transport.                                                          *)

\* requests.get returns r and the function runs to its end.
Receive(r) ==
    /\ pc = "sent"
    /\ resp' = r
    /\ LET e == AfterGet(fn, args, r)
       IN  /\ outcome' = e.outcome
           /\ printed' = e.printed
           /\ parsed' = e.parsed
    /\ pc' = "done"
    /\ UNCHANGED <<fn, args, requests, prev>>

\* TransportFailure with one retry: the GET is issued a second time before
\* the exception leaves the function.
TransportFailureRetried(exc) ==
    /\ pc = "sent"
    /\ requests' = Append(requests, requests[1])
    /\ outcome' = Raised(exc)
    /\ pc' = "done"
    /\ UNCHANGED <<fn, args, resp, parsed, printed, prev>>

\* requests.get raises exc (a requests.exceptions.RequestException); no
\* function has a handler around the call, so the exception leaves it.
TransportFailure(exc) ==
    /\ pc = "sent"
    /\ outcome' = Raised(exc)
    /\ pc' = "done"
    /\ UNCHANGED <<fn, args, requests, resp, parsed, printed, prev>>

---------------------------------------------------------------------------
(* Inputs.                                                                 *)

\* A value of another type than v's.
WrongType(v) ==
    CASE v.t = "int" -> PyStr("2019")
      [] v.t = "str" -> PyInt(7)
      [] OTHER -> PyNone

\* The arguments good, and good with one of its first n arguments (those
\* whose type the function documents) replaced by a value of another type.
OneWrong(good, n) ==
    {good} \cup {[good EXCEPT ![k] = WrongType(good[k])] : k \in 1..n}

Year == PyInt(2019)
Key == PyStr("MYKEY")

SampleRows ==
    {<<"NAME", "VAR1">>, <<"United States", "123">>, <<"United States">>}

RECURSIVE SeqsUpTo(_, _)
SeqsUpTo(S, n) ==
    IF n = 0 THEN {<<>>}
    ELSE LET shorter == SeqsUpTo(S, n - 1)
         IN  shorter \cup {Append(q, x) : q \in shorter, x \in S}

Bodies == SeqsUpTo(SampleRows, MaxRows)

Responses ==
    {Response(200, "array", b) : b \in Bodies}
      \cup {Response(200, "invalid", <<>>), Response(200, "string", <<>>)}
      \cup {Response(404, "invalid", <<>>),
            Response(404, "array", <<<<"NAME", "VAR1">>, <<"United States", "123">>>>),
            Response(500, "invalid", <<>>)}

TransportErrors == {"ConnectionError", "Timeout"}

---------------------------------------------------------------------------

Init ==
    /\ pc = "idle"
    /\ fn = ""
    /\ args = <<>>
    /\ requests = <<>>
    /\ resp = NoResp
    /\ parsed = FALSE
    /\ outcome = NoOutcome
    /\ printed = <<>>
    /\ prev = NoCall

Next ==
    \/ \E a \in OneWrong(<<Year, PyStr("B01001"), Key, PyStr("1")>>, 3) :
          AmComSurv(a[1], a[2], a[3], a[4])
    \/ \E a \in OneWrong(<<Year, PyStr("CP05"), Key, PyStr("")>>, 3)
                  \cup {<<Year, PyStr("CP05"), Key, PyStr(x)>> : x \in {"c", "x"}} :
          AmComSurvSubjects(a[1], a[2], a[3], a[4])
    \/ \E a \in OneWrong(<<Year, PyStr("S0201"), PyStr("001"), Key>>, 4) :
          AmComSurv_PopProfile(a[1], a[2], a[3], a[4])
    \/ \E a \in OneWrong(<<Year, Key, PyStr("*")>>, 3) :
          YrSupplemental(a[1], a[2], a[3])
    \/ \E a \in OneWrong(<<Year, Key, PyStr("*"), PyBool(FALSE)>>, 4)
                  \cup {<<Year, Key, PyStr("*"), PyBool(TRUE)>>} :
          entrepreneur(a[1], a[2], a[3], a[4])
    \/ \E a \in OneWrong(<<Year, Key, PyStr("*"), PyBool(FALSE)>>, 4)
                  \cup {<<Year, Key, PyStr("*"), PyBool(TRUE)>>} :
          business(a[1], a[2], a[3], a[4])
    \/ \E a \in OneWrong(<<Year, PyStr("31-33"), Key>>, 3) :
          manufacturing(a[1], a[2], a[3])
    \/ \E a \in OneWrong(<<Key, Year, PyStr("31-33"), PyStr("state"), PyStr("*")>>, 5) :
          state_manufacturing(a[1], a[2], a[3], a[4], a[5])
    \/ \E a \in OneWrong(<<Year, PyStr("54"), Key, PyStr("02")>>, 4) :
          unemployed(a[1], a[2], a[3], a[4])
    \/ \E a \in OneWrong(<<Year, PyStr("72"), PyStr("06")>>, 3) :
          county_business_patterns(a[1], a[2], a[3])
    \/ \E a \in OneWrong(<<Year, PyStr("hv"), PyBool(FALSE), PyStr(""), PyStr(""), PyStr("")>>, 3)
                  \cup OneWrong(<<Year, PyStr("hv"), PyBool(TRUE), PyStr("2020"), PyStr("01"), PyStr("12")>>, 4) :
          get_econ(a[1], a[2], a[3], a[4], a[5], a[6])
    \/ \E a \in OneWrong(<<Year, PyStr("02"), PyStr("*")>>, 3) :
          health(a[1], a[2], a[3])
    \/ \E r \in Responses : Receive(r)
    \/ \E e \in TransportErrors : TransportFailure(e)

Spec == Init /\ [][Next]_vars

---------------------------------------------------------------------------
(* Vocabulary of the claims.                                               *)

\* The type each function's docstring and assert messages give its
\* parameters, in positional order ("any": none stated).
DocType(f) ==
    CASE f = "AmComSurv" -> <<"int", "str", "str", "any">>
      [] f = "AmComSurvSubjects" -> <<"int", "str", "str", "any">>
      [] f = "AmComSurv_PopProfile" -> <<"int", "str", "str", "str">>
      [] f = "YrSupplemental" -> <<"int", "str", "str">>
      [] f = "entrepreneur" -> <<"int", "str", "str", "bool">>
      [] f = "business" -> <<"int", "str", "str", "bool">>
      [] f = "manufacturing" -> <<"int", "str", "str">>
      [] f = "state_manufacturing" -> <<"str", "int", "str", "str", "str">>
      [] f = "unemployed" -> <<"int", "str", "str", "str">>
      [] f = "county_business_patterns" -> <<"int", "str", "str">>
      [] f = "get_econ" -> <<"int", "str", "bool", "str", "any", "any">>
      [] f = "health" -> <<"int", "str", "str">>
      [] OTHER -> <<>>

HasWrongType(f, a) ==
    \E k \in DOMAIN a : DocType(f)[k] # "any" /\ ~isinstance(a[k], DocType(f)[k])

\* The body is a header row followed by rows of the header's length.
WellShaped(r) ==
    /\ r.json = "array"
    /\ Len(r.rows) >= 1
    /\ Len(r.rows[1]) >= 1
    /\ \A n \in DOMAIN r.rows : Len(r.rows[n]) = Len(r.rows[1])

\* The call ended and requests.get had returned a response to it; its
\* arguments were of the documented types.
Answered == pc = "done" /\ resp # NoResp /\ ~HasWrongType(fn, args)

\* The call ended because requests.get raised.
TransportFailed == pc = "done" /\ resp = NoResp /\ requests # <<>>

\* An error that carries the status code st.
UpstreamError(st) == Raised("UpstreamError(" \o IntToStr(st) \o ")")

ParseErrors == {"JSONDecodeError", "ValueError"}

\* The call before this one had the same function and arguments.
Repeated == pc = "done" /\ prev.fn = fn /\ prev.args = args

---------------------------------------------------------------------------
(* The claims.                                                             *)

\* C1: in every query function a call with an argument of the wrong type is
\* rejected by a validation error and no HTTP request is issued.
C1_WrongTypeRejected ==
    (fn # "" /\ HasWrongType(fn, args)) =>
        /\ requests = <<>>
        /\ pc = "done" => outcome = Raised("AssertionError")

\* C2: when the response status is not 200 the call surfaces an upstream
\* error that carries the status code, and the body is never parsed.
C2_UpstreamErrorCarriesStatus ==
    (Answered /\ resp.status # 200) =>
        /\ outcome = UpstreamError(resp.status)
        /\ ~parsed

\* C3: when the status is 200 and the body is not valid JSON or not a header
\* row followed by data rows, the call surfaces a parse error, an outcome
\* that differs from the outcome of a non-200 response.
C3_ParseErrorSurfaced ==
    (Answered /\ resp.status = 200 /\ ~WellShaped(resp)) =>
        /\ outcome.kind = "raise"
        /\ outcome.exc \in ParseErrors
        /\ outcome # AfterGet(fn, args, Response(404, resp.json, resp.rows)).outcome

\* C4: a GET that fails at the transport level ends the call with the
\* request error raised to the caller, after exactly one GET attempt; no
\* call ever issues a second GET.
C4_RequestErrorNotRetried ==
    /\ Len(requests) <= 1
    /\ TransportFailed =>
          /\ outcome.kind = "raise"
          /\ outcome.exc \in TransportErrors
          /\ Len(requests) = 1

C4_Witness ==
    /\ TransportFailed
    /\ outcome = Raised("ConnectionError")
    /\ Len(requests) = 1

\* C5: in every function and branch, a status-200 response whose body is a
\* JSON array of arrays (a header row and data rows) is returned as a table
\* with the body's rows, in the same order and with the same cells.
C5_TableIsBody ==
    (Answered /\ resp.status = 200 /\ WellShaped(resp)) =>
        /\ outcome.kind = "DataFrame"
        /\ outcome.df.values = resp.rows

\* C6: a returned table has a header row, every row has the header's length
\* and none is empty; a 200 response with an empty body or with rows of
\* differing lengths is never returned as a table.
C6_TableIsRectangular ==
    (Answered /\ outcome.kind = "DataFrame") =>
        /\ WellShaped(resp)
        /\ \A n \in DOMAIN outcome.df.values :
              /\ Len(outcome.df.values[n]) >= 1
              /\ Len(outcome.df.values[n]) = Len(outcome.df.values[1])

\* C7: a call whose arguments pass validation issues exactly one HTTP GET,
\* in every branch and for every value of a variant flag that validation
\* accepts; no call issues more than one.
C7_ExactlyOneGet ==
    /\ Len(requests) <= 1
    /\ (pc = "done" /\ outcome # Raised("AssertionError")) => Len(requests) = 1

C9_ProfileEndpoint ==
    (fn = "AmComSurvSubjects" /\ requests # <<>>) =>
        LET path == requests[1].path
        IN  /\ SubSeq(path, 1, Len(path) - 1) = <<"data", format(args[1]), "acs", "acs1">>
            /\ path[Len(path)] = (IF args[4] = PyStr("c") THEN "cprofile" ELSE "profile")

\* C10: in both branches of get_econ (betweentime False and True) a
\* status-200 response is returned as a table built from its body: two
\* different bodies give two different results.
C10_EconResultFromBody ==
    (/\ Repeated
     /\ Answered
     /\ fn = "get_econ"
     /\ resp.status = 200 /\ resp.json = "array"
     /\ prev.resp.status = 200 /\ prev.resp.json = "array"
     /\ prev.resp # resp) =>
        /\ outcome.kind = "DataFrame"
        /\ outcome # prev.outcome

\* C11: every failed call (a status other than 200, or a status-200 body
\* that cannot be turned into a table) prints a message and returns no
\* value, in every query function; none ends silently and none ends by
\* raising an exception.
C11_FailurePrintsAndReturnsNone ==
    (Answered /\ (resp.status # 200 \/ resp.json # "array")) =>
        /\ outcome = ReturnNone
        /\ printed # <<>>

====
